---- MODULE Spec2Model ----
(***************************************************************************)
(* TransparentCache (src/cache.go): a price cache in front of a slow       *)
(* PriceService.  GetPriceFor answers from the map `prices` when the entry *)
(* is younger than maxAge and asks the service otherwise; GetPricesFor     *)
(* starts one goroutine per item code and collects their outcomes from a   *)
(* buffered channel.                                                       *)
(*                                                                         *)
(* Units of work are goroutines running GetPriceFor: the workers of the    *)
(* batch call (processRequest) and the callers of single lookups.  A step  *)
(* of a unit runs from one access of shared state or blocking operation to *)
(* the next: the map lookup with the expiration check on its result, the   *)
(* service call with the time.Now() of the new entry, Lock, the map        *)
(* assignment, Unlock.  The clock advances between any two steps.          *)
(*                                                                         *)
(* The lookup at cache.go:60 does not take the mutex, so it races with the *)
(* assignment at cache.go:54.  A lookup made while another unit is inside  *)
(* the assignment yields any of the outcomes a Go build produces for a     *)
(* racing map read: the old entry, the new entry, an entry with fields of  *)
(* both, or the runtime's fatal error "concurrent map read and map write", *)
(* which ends the whole process.                                           *)
(***************************************************************************)
EXTENDS Integers, Sequences, FiniteSets, TLC

\* ------------------------------------------------------------------ bounds
\* Largest value of the clock.
MaxTime == 3
\* Largest number of item codes of one GetPricesFor call (its workers).
MaxBatch == 2
\* Number of goroutines that call GetPriceFor directly.
NumSingles == 1

\* c.maxAge, the construction parameter, in clock units.
maxAge == 2

\* Item codes the callers ask for.
Keys == {"a", "b"}

Workers == 1..MaxBatch
Singles == (MaxBatch + 1)..(MaxBatch + NumSingles)
Units == Workers \cup Singles

VARIABLES
    now,        \* time.Now()
    prices,     \* c.prices: item code -> entry (ok = FALSE: no entry)
    locked,     \* the mutex m is held
    crashed,    \* the runtime ended the process with a fatal error
    pc,         \* unit -> position in GetPriceFor / processRequest
    itemCode,   \* unit -> the itemCode argument of its GetPriceFor
    price,      \* unit -> the price it holds (fetched, or being returned)
    stamp,      \* unit -> the time.Now() of the Price it is about to store
    err,        \* unit -> the error it returns (<<>> is nil)
    calls,      \* unit -> service calls made by its current GetPriceFor
    bpc,        \* position of the GetPricesFor call
    itemCodes,  \* the itemCodes argument of GetPricesFor
    messages,   \* the channel `messages`: outcomes sent and not yet received
    results,    \* the slice `results`; once returned, the returned slice
    remaining,  \* the loop counter i of the receive loop
    berr,       \* the error GetPricesFor returns (<<>> is nil)
    snap,       \* the map as it was when the latest call began alone
    began       \* the clock when the latest GetPricesFor began alone

vars == <<now, prices, locked, crashed, pc, itemCode, price, stamp, err, calls,
          bpc, itemCodes, messages, results, remaining, berr, snap, began>>

unitVars == <<pc, itemCode, price, stamp, err, calls>>
batchVars == <<bpc, itemCodes, messages, results, remaining, berr>>

\* ----------------------------------------------------------- the service
Code(k) == IF k = "a" THEN 0 ELSE 1

\* The price the service quotes for item k at time t.  Every quote is
\* different, so a price tells which item it is of and when it was quoted.
UpstreamPrice(k, t) == Code(k) * (MaxTime + 1) + t + 1

\* The item and the time of a quoted price.
ItemOf(p) == IF (p - 1) \div (MaxTime + 1) = 0 THEN "a" ELSE "b"
ObtainedAt(p) == (p - 1) % (MaxTime + 1)

\* The error of a failed service call for item k.
UpstreamError(k) == <<"no price", k>>

NoError == <<>>

\* fmt.Errorf("getting price from service : %v", err.Error())
WrapError(e) == <<"getting price from service : ">> \o e

\* ------------------------------------------------------------- the entry
\* The zero Price with ok = false, as a lookup of a missing key yields.
Absent == [ok |-> FALSE, price |-> 0, creationDate |-> 0]

Entry(p, t) == [ok |-> TRUE, price |-> p, creationDate |-> t]

\* An expiration check that takes an entry of exactly maxAge for fresh.
checkExpirationStale(p, t) == (t - p.creationDate) <= maxAge

\* (p *Price) checkExpiration(maxAge): TRUE when the entry is still fresh.
checkExpiration(p, t) == (t - p.creationDate) < maxAge

\* ------------------------------------------------------------------ init
Init ==
    /\ now = 0
    /\ prices = [k \in Keys |-> Absent]
    /\ locked = FALSE
    /\ crashed = FALSE
    /\ pc = [u \in Units |-> "idle"]
    /\ itemCode = [u \in Units |-> "a"]
    /\ price = [u \in Units |-> 0]
    /\ stamp = [u \in Units |-> 0]
    /\ err = [u \in Units |-> NoError]
    /\ calls = [u \in Units |-> 0]
    /\ bpc = "idle"
    /\ itemCodes = <<>>
    /\ messages = <<>>
    /\ results = <<>>
    /\ remaining = 0
    /\ berr = NoError
    /\ snap = [k \in Keys |-> Absent]
    /\ began = 0

\* The clock advances.
Tick ==
    /\ ~crashed
    /\ now < MaxTime
    /\ now' = now + 1
    /\ UNCHANGED <<prices, locked, crashed, unitVars, batchVars, snap, began>>

\* ----------------------------------------------------------- GetPriceFor
\* The units other than u that are inside the map assignment c.prices[..] = p.
Writing(u) == {w \in Units \ {u} : pc[w] = "write"}

\* What a read of an entry yields while `new` is being stored over `old`.
Torn(old, new) ==
    IF old.ok
    THEN {old, new, Entry(old.price, new.creationDate),
                    Entry(new.price, old.creationDate)}
    ELSE {old, new}

\* priceStruct, ok := c.prices[itemCode], read without the mutex: the stored
\* entry, or what a read racing with an assignment to the same key yields.
LookupOutcomes(u) ==
    {prices[itemCode[u]]} \cup
    UNION {Torn(prices[itemCode[u]], Entry(price[w], stamp[w])) :
             w \in {x \in Writing(u) : itemCode[x] = itemCode[u]}}

\* GetPriceFor, the lookup and the expiration check: a fresh entry is
\* returned, otherwise the unit goes on to call the service.
Lookup(u) ==
    /\ ~crashed
    /\ pc[u] = "lookup"
    /\ \E e \in LookupOutcomes(u) :
         IF e.ok /\ checkExpiration(e, now)
         THEN /\ pc' = [pc EXCEPT ![u] = "ret"]
              /\ price' = [price EXCEPT ![u] = e.price]
         ELSE /\ pc' = [pc EXCEPT ![u] = "fetch"]
              /\ UNCHANGED price
    /\ UNCHANGED <<now, prices, locked, crashed, itemCode, stamp, err, calls,
                   batchVars, snap, began>>

\* The map read of u meets the assignment of another unit and the runtime
\* throws "concurrent map read and map write": the process is gone.
MapFatal(u) ==
    /\ ~crashed
    /\ pc[u] = "lookup"
    /\ Writing(u) # {}
    /\ crashed' = TRUE
    /\ UNCHANGED <<now, prices, locked, unitVars, batchVars, snap, began>>

\* A service call whose failure drops the entry of the item from the map.
FetchEvict(u) ==
    /\ ~crashed
    /\ pc[u] = "fetch"
    /\ calls' = [calls EXCEPT ![u] = @ + 1]
    /\ \E ok \in BOOLEAN :
         IF ok
         THEN /\ price' = [price EXCEPT ![u] = UpstreamPrice(itemCode[u], now)]
              /\ stamp' = [stamp EXCEPT ![u] = now]
              /\ pc' = [pc EXCEPT ![u] = "lock"]
              /\ UNCHANGED <<err, prices>>
         ELSE /\ price' = [price EXCEPT ![u] = 0]
              /\ err' = [err EXCEPT ![u] = WrapError(UpstreamError(itemCode[u]))]
              /\ pc' = [pc EXCEPT ![u] = "ret"]
              /\ prices' = [prices EXCEPT ![itemCode[u]] = Absent]
              /\ UNCHANGED stamp
    /\ UNCHANGED <<now, locked, crashed, itemCode, batchVars, snap, began>>

\* A service call whose failure is stored as a price like a success.
FetchStoresFailure(u) ==
    /\ ~crashed
    /\ pc[u] = "fetch"
    /\ calls' = [calls EXCEPT ![u] = @ + 1]
    /\ \E ok \in BOOLEAN :
         IF ok
         THEN /\ price' = [price EXCEPT ![u] = UpstreamPrice(itemCode[u], now)]
              /\ stamp' = [stamp EXCEPT ![u] = now]
              /\ pc' = [pc EXCEPT ![u] = "lock"]
              /\ UNCHANGED err
         ELSE /\ price' = [price EXCEPT ![u] = 0]
              /\ stamp' = [stamp EXCEPT ![u] = now]
              /\ err' = [err EXCEPT ![u] = WrapError(UpstreamError(itemCode[u]))]
              /\ pc' = [pc EXCEPT ![u] = "lock"]
    /\ UNCHANGED <<now, prices, locked, crashed, itemCode, batchVars, snap, began>>

\* A service call that is made twice, the second answer being used.
FetchTwice(u) ==
    /\ ~crashed
    /\ pc[u] = "fetch"
    /\ calls' = [calls EXCEPT ![u] = @ + 2]
    /\ \E ok \in BOOLEAN :
         IF ok
         THEN /\ price' = [price EXCEPT ![u] = UpstreamPrice(itemCode[u], now)]
              /\ stamp' = [stamp EXCEPT ![u] = now]
              /\ pc' = [pc EXCEPT ![u] = "lock"]
              /\ UNCHANGED err
         ELSE /\ price' = [price EXCEPT ![u] = 0]
              /\ err' = [err EXCEPT ![u] = WrapError(UpstreamError(itemCode[u]))]
              /\ pc' = [pc EXCEPT ![u] = "ret"]
              /\ UNCHANGED stamp
    /\ UNCHANGED <<now, prices, locked, crashed, itemCode, batchVars, snap, began>>

\* c.actualPriceService.GetPriceFor(itemCode) returns: an error, which is
\* wrapped and returned, or a price, which becomes Price{price, time.Now()}.
Fetch(u) ==
    /\ ~crashed
    /\ pc[u] = "fetch"
    /\ calls' = [calls EXCEPT ![u] = @ + 1]
    /\ \E ok \in BOOLEAN :
         IF ok
         THEN /\ price' = [price EXCEPT ![u] = UpstreamPrice(itemCode[u], now)]
              /\ stamp' = [stamp EXCEPT ![u] = now]
              /\ pc' = [pc EXCEPT ![u] = "lock"]
              /\ UNCHANGED err
         ELSE /\ price' = [price EXCEPT ![u] = 0]
              /\ err' = [err EXCEPT ![u] = WrapError(UpstreamError(itemCode[u]))]
              /\ pc' = [pc EXCEPT ![u] = "ret"]
              /\ UNCHANGED stamp
    /\ UNCHANGED <<now, prices, locked, crashed, itemCode, batchVars, snap, began>>

\* Lock that does not wait for the holder of the mutex.
LockNoWait(u) ==
    /\ ~crashed
    /\ pc[u] = "lock"
    /\ locked' = TRUE
    /\ pc' = [pc EXCEPT ![u] = "write"]
    /\ UNCHANGED <<now, prices, crashed, itemCode, price, stamp, err, calls,
                   batchVars, snap, began>>

\* sequentialPriceSet: m.Lock()
Lock(u) ==
    /\ ~crashed
    /\ pc[u] = "lock"
    /\ ~locked
    /\ locked' = TRUE
    /\ pc' = [pc EXCEPT ![u] = "write"]
    /\ UNCHANGED <<now, prices, crashed, itemCode, price, stamp, err, calls,
                   batchVars, snap, began>>

\* An assignment that keeps the entry an item already has.
WriteIfAbsent(u) ==
    /\ ~crashed
    /\ pc[u] = "write"
    /\ prices' = IF prices[itemCode[u]].ok THEN prices
                 ELSE [prices EXCEPT ![itemCode[u]] = Entry(price[u], stamp[u])]
    /\ pc' = [pc EXCEPT ![u] = "unlock"]
    /\ UNCHANGED <<now, locked, crashed, itemCode, price, stamp, err, calls,
                   batchVars, snap, began>>

\* An assignment that stores the entry under every key of the map.
WriteEveryKey(u) ==
    /\ ~crashed
    /\ pc[u] = "write"
    /\ prices' = [k \in Keys |-> Entry(price[u], stamp[u])]
    /\ pc' = [pc EXCEPT ![u] = "unlock"]
    /\ UNCHANGED <<now, locked, crashed, itemCode, price, stamp, err, calls,
                   batchVars, snap, began>>

\* An assignment that leaves the map as it was.
WriteSkipped(u) ==
    /\ ~crashed
    /\ pc[u] = "write"
    /\ pc' = [pc EXCEPT ![u] = "unlock"]
    /\ UNCHANGED <<now, prices, locked, crashed, itemCode, price, stamp, err,
                   calls, batchVars, snap, began>>

\* sequentialPriceSet: c.prices[itemCode] = p
Write(u) ==
    /\ ~crashed
    /\ pc[u] = "write"
    /\ prices' = [prices EXCEPT ![itemCode[u]] = Entry(price[u], stamp[u])]
    /\ pc' = [pc EXCEPT ![u] = "unlock"]
    /\ UNCHANGED <<now, locked, crashed, itemCode, price, stamp, err, calls,
                   batchVars, snap, began>>

\* sequentialPriceSet: m.Unlock(), and GetPriceFor returns price, nil.
Unlock(u) ==
    /\ ~crashed
    /\ pc[u] = "unlock"
    /\ locked' = FALSE
    /\ pc' = [pc EXCEPT ![u] = "ret"]
    /\ stamp' = [stamp EXCEPT ![u] = 0]
    /\ UNCHANGED <<now, prices, crashed, itemCode, price, err, calls,
                   batchVars, snap, began>>

\* A caller calls GetPriceFor(k).
Start(u, k) ==
    /\ ~crashed
    /\ u \in Singles
    /\ pc[u] = "idle"
    /\ pc' = [pc EXCEPT ![u] = "lookup"]
    /\ itemCode' = [itemCode EXCEPT ![u] = k]
    /\ UNCHANGED <<now, prices, locked, crashed, price, stamp, err, calls,
                   batchVars>>

\* The caller has its answer and is ready for its next call.
Finish(u) ==
    /\ ~crashed
    /\ u \in Singles
    /\ pc[u] = "ret"
    /\ pc' = [pc EXCEPT ![u] = "idle"]
    /\ itemCode' = [itemCode EXCEPT ![u] = "a"]
    /\ price' = [price EXCEPT ![u] = 0]
    /\ err' = [err EXCEPT ![u] = NoError]
    /\ calls' = [calls EXCEPT ![u] = 0]
    /\ UNCHANGED <<now, prices, locked, crashed, stamp, batchVars, snap, began>>

\* ---------------------------------------------------------- GetPricesFor
\* The item-code lists a caller passes.
BatchInputs == UNION {[1..n -> Keys] : n \in 0..MaxBatch}

\* A call that starts every goroutine it has, however few the item codes.
CallAll(codes) ==
    /\ ~crashed
    /\ bpc = "idle"
    /\ itemCodes' = codes
    /\ messages' = <<>>
    /\ results' = <<>>
    /\ remaining' = Len(codes)
    /\ berr' = NoError
    /\ bpc' = IF Len(codes) = 0 THEN "ret" ELSE "recv"
    /\ pc' = [u \in Units |-> IF u \in Workers THEN "lookup" ELSE pc[u]]
    /\ itemCode' = [u \in Units |->
                      IF u \in 1..Len(codes) THEN codes[u] ELSE itemCode[u]]
    /\ UNCHANGED <<now, prices, locked, crashed, price, stamp, err, calls>>

\* GetPricesFor(codes...): results and the channel are made and one
\* goroutine per item code is started.  Without item codes the receive
\* loop is skipped and the empty results are returned.
Call(codes) ==
    /\ ~crashed
    /\ bpc = "idle"
    /\ itemCodes' = codes
    /\ messages' = <<>>
    /\ results' = <<>>
    /\ remaining' = Len(codes)
    /\ berr' = NoError
    /\ bpc' = IF Len(codes) = 0 THEN "ret" ELSE "recv"
    /\ pc' = [u \in Units |-> IF u \in 1..Len(codes) THEN "lookup" ELSE pc[u]]
    /\ itemCode' = [u \in Units |->
                      IF u \in 1..Len(codes) THEN codes[u] ELSE itemCode[u]]
    /\ UNCHANGED <<now, prices, locked, crashed, price, stamp, err, calls>>

\* A send that reports every failure as the same error of its own.
SendGeneric(u) ==
    /\ ~crashed
    /\ u \in Workers
    /\ pc[u] = "ret"
    /\ Len(messages) < Len(itemCodes)
    /\ messages' = Append(messages,
                     [price |-> price[u],
                      err |-> IF err[u] = NoError THEN NoError
                              ELSE <<"lookup failed">>])
    /\ pc' = [pc EXCEPT ![u] = "done"]
    /\ UNCHANGED <<now, prices, locked, crashed, itemCode, price, stamp, err,
                   calls, bpc, itemCodes, results, remaining, berr, snap, began>>

\* processRequest: c <- PriceRequest{price, err}.  The channel holds
\* len(itemCodes) outcomes; a send to a full channel would wait.
Send(u) ==
    /\ ~crashed
    /\ u \in Workers
    /\ pc[u] = "ret"
    /\ Len(messages) < Len(itemCodes)
    /\ messages' = Append(messages, [price |-> price[u], err |-> err[u]])
    /\ pc' = [pc EXCEPT ![u] = "done"]
    /\ UNCHANGED <<now, prices, locked, crashed, itemCode, price, stamp, err,
                   calls, bpc, itemCodes, results, remaining, berr, snap, began>>

\* A receive loop that returns after the first price it receives.
ReceiveShort ==
    /\ ~crashed
    /\ bpc = "recv"
    /\ messages # <<>>
    /\ messages' = Tail(messages)
    /\ IF Head(messages).err # NoError
       THEN /\ results' = <<>>
            /\ berr' = Head(messages).err
            /\ bpc' = "ret"
            /\ UNCHANGED remaining
       ELSE /\ results' = Append(results, Head(messages).price)
            /\ remaining' = remaining - 1
            /\ bpc' = "ret"
            /\ UNCHANGED berr
    /\ UNCHANGED <<now, prices, locked, crashed, unitVars, itemCodes, snap, began>>

\* A receive loop that returns the prices collected so far with the error.
ReceivePartial ==
    /\ ~crashed
    /\ bpc = "recv"
    /\ messages # <<>>
    /\ messages' = Tail(messages)
    /\ IF Head(messages).err # NoError
       THEN /\ berr' = Head(messages).err
            /\ bpc' = "ret"
            /\ UNCHANGED <<remaining, results>>
       ELSE /\ results' = Append(results, Head(messages).price)
            /\ remaining' = remaining - 1
            /\ bpc' = IF remaining = 1 THEN "ret" ELSE "recv"
            /\ UNCHANGED berr
    /\ UNCHANGED <<now, prices, locked, crashed, unitVars, itemCodes, snap, began>>

\* One turn of the receive loop: request := <-messages.  An error ends the
\* call with no prices; a price is appended, and after the last one the
\* results are returned.
Receive ==
    /\ ~crashed
    /\ bpc = "recv"
    /\ messages # <<>>
    /\ messages' = Tail(messages)
    /\ IF Head(messages).err # NoError
       THEN /\ results' = <<>>
            /\ berr' = Head(messages).err
            /\ bpc' = "ret"
            /\ UNCHANGED remaining
       ELSE /\ results' = Append(results, Head(messages).price)
            /\ remaining' = remaining - 1
            /\ bpc' = IF remaining = 1 THEN "ret" ELSE "recv"
            /\ UNCHANGED berr
    /\ UNCHANGED <<now, prices, locked, crashed, unitVars, itemCodes, snap, began>>

\* The caller has the answer of GetPricesFor, its goroutines have ended,
\* and it is ready for its next call.
BatchFinish ==
    /\ ~crashed
    /\ bpc = "ret"
    /\ \A u \in Workers : pc[u] \in {"idle", "done"}
    /\ bpc' = "idle"
    /\ itemCodes' = <<>>
    /\ messages' = <<>>
    /\ results' = <<>>
    /\ remaining' = 0
    /\ berr' = NoError
    /\ pc' = [u \in Units |-> IF u \in Workers THEN "idle" ELSE pc[u]]
    /\ itemCode' = [u \in Units |-> IF u \in Workers THEN "a" ELSE itemCode[u]]
    /\ price' = [u \in Units |-> IF u \in Workers THEN 0 ELSE price[u]]
    /\ err' = [u \in Units |-> IF u \in Workers THEN NoError ELSE err[u]]
    /\ calls' = [u \in Units |-> IF u \in Workers THEN 0 ELSE calls[u]]
    /\ UNCHANGED <<now, prices, locked, crashed, stamp, snap, began>>

\* -------------------------------------------------------- specifications
\* Concurrent use: single lookups and a batch call run side by side.
Next ==
    \/ Tick
    \/ \E u \in Units : Lookup(u)
    \/ \E u \in Units : MapFatal(u)
    \/ \E u \in Units : Fetch(u)
    \/ \E u \in Units : Lock(u)
    \/ \E u \in Units : Write(u)
    \/ \E u \in Units : Unlock(u)
    \/ \E u \in Singles, k \in Keys : Start(u, k) /\ UNCHANGED <<snap, began>>
    \/ \E u \in Singles : Finish(u)
    \/ \E codes \in BatchInputs : Call(codes) /\ UNCHANGED <<snap, began>>
    \/ \E u \in Workers : Send(u)
    \/ Receive
    \/ BatchFinish

Spec == Init /\ [][Next]_vars

\* Sequential use: one GetPriceFor at a time, nothing else running.  snap
\* keeps the map as the call found it.
StartAlone(u, k) ==
    /\ \A v \in Units : pc[v] = "idle"
    /\ bpc = "idle"
    /\ Start(u, k)
    /\ snap' = prices
    /\ UNCHANGED began

NextSeq ==
    \/ Tick
    \/ \E u \in Singles, k \in Keys : StartAlone(u, k)
    \/ \E u \in Singles : Lookup(u)
    \/ \E u \in Singles : Fetch(u)
    \/ \E u \in Singles : Lock(u)
    \/ \E u \in Singles : Write(u)
    \/ \E u \in Singles : Unlock(u)
    \/ \E u \in Singles : Finish(u)

SpecSeq == Init /\ [][NextSeq]_vars

\* One GetPricesFor at a time and no single lookups: the workers of the call
\* are the only units.  snap and began keep the map and the clock as the
\* call found them.
CallAlone(codes) ==
    /\ Call(codes)
    /\ snap' = prices
    /\ began' = now

NextBatch ==
    \/ Tick
    \/ \E codes \in BatchInputs : CallAlone(codes)
    \/ \E u \in Workers : Lookup(u)
    \/ \E u \in Workers : MapFatal(u)
    \/ \E u \in Workers : Fetch(u)
    \/ \E u \in Workers : Lock(u)
    \/ \E u \in Workers : Write(u)
    \/ \E u \in Workers : Unlock(u)
    \/ \E u \in Workers : Send(u)
    \/ Receive
    \/ BatchFinish

SpecBatch == Init /\ [][NextBatch]_vars

\* Concurrent use under a fair scheduler: a goroutine that can take a step
\* takes it, every service call returns, and a goroutine waiting in Lock
\* gets the mutex (sync.Mutex hands it to a starving waiter).  The fatal
\* error of a racing map read is possible, never certain.
FairSpec ==
    /\ Spec
    /\ \A u \in Units :
         /\ WF_vars(Lookup(u))
         /\ WF_vars(Fetch(u))
         /\ SF_vars(Lock(u))
         /\ WF_vars(Write(u))
         /\ WF_vars(Unlock(u))
    /\ \A u \in Workers : WF_vars(Send(u))
    /\ WF_vars(Receive)

\* ================================================================ claims

\* C1: a price returned from the cache without a service call was obtained
\* from the service less than maxAge before the moment it is returned, in
\* every interleaving of single and batch lookups.
C1_NoStaleServed ==
    [][\A u \in Units :
         (pc[u] = "lookup" /\ pc'[u] = "ret")
            => now - ObtainedAt(price'[u]) < maxAge]_vars

\* C2: GetPriceFor(k) answers from the store, without a service call, if
\* and only if the store has an entry for k whose age now - creationDate is
\* less than maxAge; an entry of exactly maxAge or older, or no entry, makes
\* it call the service.
C2_HitIffFresh ==
    [][\A u \in Singles :
         /\ (pc[u] = "lookup" /\ pc'[u] # "lookup") =>
               /\ pc'[u] \in {"ret", "fetch"}
               /\ (pc'[u] = "ret" /\ calls'[u] = 0) <=>
                     (prices[itemCode[u]].ok
                        /\ now - prices[itemCode[u]].creationDate < maxAge)
         /\ (pc[u] = "fetch" /\ pc'[u] # "fetch") => calls'[u] = calls[u] + 1
      ]_vars

\* A lookup has just found an entry of exactly maxAge and goes to the service.
C2_Witness ==
    \E u \in Singles :
        /\ pc[u] = "fetch"
        /\ prices[itemCode[u]].ok
        /\ now - prices[itemCode[u]].creationDate = maxAge

\* C3: when GetPricesFor(k1..kN) succeeds, position i of the result holds
\* the price of ki, whatever the order in which the lookups complete.
C3_ResultAligned ==
    (bpc = "ret" /\ berr = NoError) =>
        /\ Len(results) = Len(itemCodes)
        /\ \A i \in 1..Len(itemCodes) : ItemOf(results[i]) = itemCodes[i]

\* C4: GetPricesFor is all-or-nothing: it returns an error with an empty
\* list as soon as it has seen a failed lookup, and returns without error
\* only when every one of its N lookups has succeeded, then with N prices.
C4_AllOrNothing ==
    bpc = "ret" =>
        /\ berr # NoError => results = <<>>
        /\ berr = NoError =>
              /\ Len(results) = Len(itemCodes)
              /\ \A u \in 1..Len(itemCodes) :
                    pc[u] = "done" /\ err[u] = NoError
        /\ (\E u \in 1..Len(itemCodes) :
                pc[u] \in {"ret", "done"} /\ err[u] # NoError)
              => berr # NoError

\* GetPricesFor has failed after it had received the price of a lookup
\* that succeeded: both outcomes were sent and both were received.
C4_Witness ==
    /\ bpc = "ret"
    /\ berr # NoError
    /\ Len(itemCodes) = 2
    /\ messages = <<>>
    /\ \A u \in 1..2 : pc[u] = "done"
    /\ \E u \in 1..2 : err[u] = NoError

\* C5: with no entry for k and nothing else running, GetPriceFor(k) calls
\* the service exactly once and stores the price it returns; a GetPriceFor(k)
\* that finds the entry younger than maxAge calls the service zero times
\* and returns the stored price.
C5_PopulateThenHit ==
    [][\A u \in Singles :
         /\ (pc[u] # "ret" /\ pc'[u] = "ret" /\ ~snap[itemCode[u]].ok) =>
               /\ calls'[u] = 1
               /\ err'[u] = NoError =>
                     /\ prices'[itemCode[u]].ok
                     /\ prices'[itemCode[u]].price = price'[u]
         /\ (pc[u] = "lookup" /\ pc'[u] # "lookup" /\ snap[itemCode[u]].ok
               /\ now - snap[itemCode[u]].creationDate < maxAge) =>
               /\ pc'[u] = "ret"
               /\ calls'[u] = 0
               /\ err'[u] = NoError
               /\ price'[u] = snap[itemCode[u]].price
      ]_vars

\* A second lookup has been answered with the price the first one stored.
C5_Witness ==
    \E u \in Singles :
        /\ pc[u] = "ret"
        /\ calls[u] = 0
        /\ snap[itemCode[u]].ok
        /\ price[u] = snap[itemCode[u]].price
        /\ prices = snap

\* C6: when the service call of GetPriceFor(k) fails, GetPriceFor returns
\* the wrapped error and no price, has called the service exactly once, and
\* leaves the store exactly as it found it.
C6_FailureLeavesStore ==
    \A u \in Singles :
        (pc[u] = "ret" /\ err[u] # NoError) =>
            /\ err[u] = WrapError(UpstreamError(itemCode[u]))
            /\ price[u] = 0
            /\ calls[u] = 1
            /\ prices = snap

\* A lookup that found a stale entry has failed and the entry is still there.
C6_Witness ==
    \E u \in Singles :
        /\ pc[u] = "ret"
        /\ err[u] # NoError
        /\ snap[itemCode[u]].ok
        /\ prices[itemCode[u]] = snap[itemCode[u]]

\* C7: every access to the store is made under the mutex: no unit is at the
\* map lookup of GetPriceFor while another unit is inside the store write.
C7_LookupExcludesWrite ==
    \A u, w \in Units :
        u # w => ~(pc[u] = "lookup" /\ pc[w] = "write")

\* C8: at most one unit is between Lock and Unlock of sequentialPriceSet.
C8_WritesExclusive ==
    Cardinality({u \in Units : pc[u] \in {"write", "unlock"}}) <= 1

\* One unit is inside the store write while another waits in Lock.
C8_Witness ==
    \E u, w \in Units : pc[u] = "write" /\ pc[w] = "lock"

\* C9: every worker GetPricesFor launches eventually delivers its outcome
\* to the channel and ends, also after GetPricesFor has returned.
C9_WorkersDeliver ==
    \A u \in Workers : (pc[u] = "lookup") ~> (pc[u] = "done")

\* C10: every GetPricesFor call eventually returns to its caller.
C10_BatchReturns ==
    (bpc = "recv") ~> (bpc = "ret")

\* The entry of k was not fresh when the latest GetPricesFor began.
NotFreshAtStart(k) == ~(snap[k].ok /\ began - snap[k].creationDate < maxAge)

\* GetPricesFor(k, k) has returned without error and k was not fresh when
\* it began.
SamePairDone ==
    /\ bpc = "ret"
    /\ berr = NoError
    /\ Len(itemCodes) = 2
    /\ itemCodes[1] = itemCodes[2]
    /\ NotFreshAtStart(itemCodes[1])

\* C11: a batch does not deduplicate: for GetPricesFor(a, a) where both
\* lookups succeed and a was not fresh when the batch began, the service is
\* called at least once per occurrence of a, at least twice, in every
\* interleaving of the two workers.
C11_CallPerOccurrence ==
    SamePairDone => calls[1] + calls[2] >= 2

\* C11 as amended: each of the two workers makes at most one service call
\* and together they make at least one; the worker that looks up when the
\* other has stored its entry is answered from the cache.
C11_OneOrTwoCalls ==
    SamePairDone =>
        /\ calls[1] <= 1
        /\ calls[2] <= 1
        /\ calls[1] + calls[2] >= 1

\* GetPricesFor(a, a) has succeeded with one service call for two workers.
C11_Witness ==
    SamePairDone /\ calls[1] + calls[2] = 1

\* The number of workers of the call that have sent a failure.
FailedSends ==
    Cardinality({u \in 1..Len(itemCodes) :
                   pc[u] = "done" /\ err[u] # NoError})

\* The number of failures waiting in the channel.
ErrorsInChannel ==
    Cardinality({i \in 1..Len(messages) : messages[i].err # NoError})

\* A failed GetPricesFor returns the error of one of its workers, and of
\* the failures sent it has taken exactly one: the first in the channel.
FirstErrorReturned ==
    (bpc = "ret" /\ berr # NoError) =>
        /\ \E u \in 1..Len(itemCodes) : pc[u] = "done" /\ err[u] = berr
        /\ FailedSends = ErrorsInChannel + 1

\* C12: when GetPricesFor fails, its error is the error of exactly one of
\* its own workers, the first failing outcome that reached the channel,
\* never an error no worker of the batch produced, and outcomes that arrive
\* afterwards do not change the result.
C12_FirstErrorWins ==
    [][/\ FirstErrorReturned'
       /\ (bpc = "ret" /\ bpc' = "ret") =>
             (berr' = berr /\ results' = results)
      ]_vars

\* GetPricesFor has failed with the error of one item while the failure of
\* the other item arrived later and waits in the channel.
C12_Witness ==
    /\ bpc = "ret"
    /\ berr # NoError
    /\ Len(itemCodes) = 2
    /\ itemCodes[1] # itemCodes[2]
    /\ FailedSends = 2
    /\ ErrorsInChannel = 1

\* C13: the store changes exactly on a successful service call: a
\* GetPriceFor that finds a fresh entry makes no service call and leaves
\* the whole store unchanged, and a GetPriceFor(k) that stores leaves the
\* entry of every other identifier unchanged.
C13_StoreFrame ==
    [][/\ \A u \in Units :
            (pc[u] = "lookup" /\ pc'[u] = "ret") =>
                (prices' = prices /\ calls'[u] = 0)
       /\ prices' # prices =>
            \E u \in Units :
                /\ pc[u] = "write" /\ pc'[u] = "unlock"
                /\ calls[u] = 1
                /\ err[u] = NoError
                /\ price[u] = UpstreamPrice(itemCode[u], stamp[u])
                /\ prices'[itemCode[u]] = Entry(price[u], stamp[u])
                /\ \A k \in Keys \ {itemCode[u]} : prices'[k] = prices[k]
      ]_vars

\* A lookup has been answered from the store, which also holds an entry of
\* another identifier.
C13_Witness ==
    \E u \in Units :
        /\ pc[u] = "ret"
        /\ calls[u] = 0
        /\ err[u] = NoError
        /\ \E k \in Keys \ {itemCode[u]} : prices[k].ok

\* C14: every entry of the store holds a price that a successful service
\* call for that same identifier returned; no entry comes from a failed
\* call or holds the price of another identifier, whatever the writers do.
C14_EntriesFromService ==
    \A k \in Keys :
        prices[k].ok =>
            /\ prices[k].creationDate \in 0..now
            /\ prices[k].price = UpstreamPrice(k, prices[k].creationDate)

\* One unit has just stored the entry of an identifier while another unit
\* waits in Lock to store an entry of the same identifier.
C14_Witness ==
    \E u, w \in Units :
        /\ u # w
        /\ pc[u] = "unlock"
        /\ pc[w] = "lock"
        /\ itemCode[u] = itemCode[w]
        /\ prices[itemCode[u]].ok

\* C15: when GetPriceFor(k) finds a stale entry and the service call
\* succeeds, the entry of k is overwritten: the store then holds the newly
\* fetched price with a new timestamp in its place, and a lookup answered
\* from the store returns what the store holds, not the old price.
C15_StaleOverwritten ==
    \A u \in Singles :
        /\ (pc[u] = "ret" /\ err[u] = NoError /\ calls[u] = 1
              /\ snap[itemCode[u]].ok) =>
              /\ prices[itemCode[u]].ok
              /\ prices[itemCode[u]].price = price[u]
              /\ prices[itemCode[u]].price # snap[itemCode[u]].price
              /\ prices[itemCode[u]].creationDate
                    > snap[itemCode[u]].creationDate
              /\ \A k \in Keys \ {itemCode[u]} : prices[k] = snap[k]
        /\ (pc[u] = "ret" /\ err[u] = NoError /\ calls[u] = 0) =>
              price[u] = prices[itemCode[u]].price

\* A lookup that found a stale entry has returned the new price, and the
\* store holds the new entry in place of the old one.
C15_Witness ==
    \E u \in Singles :
        /\ pc[u] = "ret"
        /\ err[u] = NoError
        /\ calls[u] = 1
        /\ snap[itemCode[u]].ok
        /\ prices[itemCode[u]] # snap[itemCode[u]]
        /\ prices[itemCode[u]].price = price[u]

\* The workers GetPricesFor has started, and those that have sent.
Launched == {u \in Workers : pc[u] # "idle"}
Sent == {u \in Workers : pc[u] = "done"}

\* C16: GetPricesFor(k1..kN) starts exactly N workers, one per occurrence,
\* and each sends exactly one outcome; the channel never holds more than
\* its capacity N, so a worker that is ready to send never has to wait.
C16_OneOutcomePerWorker ==
    /\ Launched = (IF bpc = "idle" THEN {} ELSE 1..Len(itemCodes))
    /\ \A u \in Launched : itemCode[u] = itemCodes[u]
    /\ Len(messages) <= Cardinality(Sent)
    /\ Len(messages) <= Len(itemCodes)
    /\ (bpc # "idle" /\ berr = NoError) =>
          Len(results) + Len(messages) = Cardinality(Sent)
    /\ \A u \in Workers : pc[u] = "ret" => Len(messages) < Len(itemCodes)

\* Both workers have sent before GetPricesFor received: the channel is full.
C16_Witness ==
    /\ bpc = "recv"
    /\ Len(itemCodes) = 2
    /\ Len(messages) = 2
    /\ Sent = {1, 2}

\* C17: there is no cancellation.  After GetPricesFor has returned a
\* failure, a worker of that batch whose service call succeeded still
\* writes its entry into the store and runs to completion.
C17_NoCancellation ==
    \A u \in Workers :
        /\ (bpc = "ret" /\ berr # NoError /\ pc[u] = "lock")
              ~> (pc[u] = "unlock"
                    /\ prices[itemCode[u]] = Entry(price[u], stamp[u]))
        /\ (bpc = "ret" /\ berr # NoError /\ pc[u] = "lock")
              ~> (pc[u] = "done")

\* C18: for every item code, the creationDate of its stored entry never
\* decreases, also when several lookups of the same code miss concurrently
\* and write one after the other.
C18_StampsNeverDecrease ==
    [][\A k \in Keys :
          prices[k].ok =>
              prices'[k].creationDate >= prices[k].creationDate]_vars

\* C19: when GetPricesFor(k1..kN) succeeds, the result has N prices and
\* is, as a multiset, the N prices its N workers produced; for N = 0 it
\* returns an empty list and no error, no worker is launched and the
\* service is not called.
C19_ResultIsWorkersPrices ==
    (bpc = "ret" /\ berr = NoError) =>
        /\ Len(results) = Len(itemCodes)
        /\ \E f \in [1..Len(itemCodes) -> 1..Len(itemCodes)] :
              /\ \A i, j \in 1..Len(itemCodes) : f[i] = f[j] => i = j
              /\ \A i \in 1..Len(itemCodes) :
                    /\ pc[f[i]] = "done"
                    /\ err[f[i]] = NoError
                    /\ results[i] = price[f[i]]
        /\ Len(itemCodes) = 0 =>
              /\ results = <<>>
              /\ \A u \in Workers : pc[u] = "idle" /\ calls[u] = 0

\* A successful batch of two whose prices arrived in the reverse order.
C19_Witness ==
    /\ bpc = "ret"
    /\ berr = NoError
    /\ Len(itemCodes) = 2
    /\ price[1] # price[2]
    /\ results = <<price[2], price[1]>>

====
